---- MODULE Spec2Model ----
(***************************************************************************)
(* The rules engine of src/src/dos/Game.ts: the combination evaluator      *)
(* (Card, Play) and the round state machine (setup, play, pass, getNext,   *)
(* endIf) as boardgame.io drives it: one move per turn, the turn order     *)
(* given by turn.order, the game closed once endIf is true.                *)
(*                                                                         *)
(* A card string ("3C") is the pair <<rank, suit>> of its two characters;  *)
(* a Card object is the record [rank, suit].                               *)
(***************************************************************************)
EXTENDS Integers, Sequences, FiniteSets

\* ---------------------------------------------------------------- bounds

\* The shuffles considered are Shuffle(0) .. Shuffle(MaxShuffle).
MaxShuffle == 1
\* A submitted card list has at most MaxLen cards.
MaxLen == 5
\* A submission of cards of another seat's hand has at most MaxForeign cards.
MaxForeign == 2
\* Spec: moves are submitted while ctx.turn <= MaxTurn.
MaxTurn == 15
\* LiveSpec: the seats choose among all of Submissions and pass while
\* ctx.turn <= MaxFreeTurn, and play on to the end of the round in one way.
MaxFreeTurn == 8
\* SetupSpec: the deck is cut at 0 .. MaxCut cards and dealt with a stride of
\* 1, 3, .. 2 * MaxStride + 1 cards.
MaxCut == 51
MaxStride == 3
\* EvalSpec: from one card of a five-rank set to the next the suit moves on by
\* 0 .. MaxSuitStep places of SUITS.
MaxSuitStep == 2

\* ------------------------------------------------------------- constants

NUM_PLAYERS == 4
RANKS == <<"3", "4", "5", "6", "7", "8", "9", "T", "J", "Q", "K", "A", "2">>
SUITS == <<"C", "S", "H", "D">>

\* Combi
None == 0
Straight == 1
Flush == 2
FullHouse == 3
Quadro == 4
StraightFlush == 5

\* What a JavaScript function returns when it falls off its end, and what
\* Array.prototype.pop returns on an empty array (as a card string).
undefined == -1
undefinedStr == <<"undefined">>
\* Play.value's null; a null lastPlay.
nullValue == -2
null == [null |-> TRUE]
INVALID_MOVE == "INVALID_MOVE"

\* ------------------------------------------------------------ JS helpers

\* Array.prototype.indexOf / String.prototype.indexOf, 0-based, -1 if absent.
indexOf(seq, x) ==
    IF \E i \in DOMAIN seq : seq[i] = x
    THEN (CHOOSE i \in DOMAIN seq : seq[i] = x /\ \A j \in 1..(i - 1) : seq[j] # x) - 1
    ELSE -1

includes(seq, x) == \E i \in DOMAIN seq : seq[i] = x

\* A value used as a condition: undefined and 0 are falsy.
truthy(v) == v # undefined /\ v # 0

\* Mutant of splice1: slice in place of splice, the array keeps the element.
splice1Keeps(arr, idx) ==
    LET n == Len(arr)
        at == IF idx < 0 THEN (IF n + idx < 0 THEN 0 ELSE n + idx) ELSE idx
    IN  IF at >= n
        THEN [rest |-> arr, removed |-> <<>>]
        ELSE [rest |-> arr, removed |-> <<arr[at + 1]>>]

\* Array.prototype.splice(idx, 1): the array left and the removed elements.
\* A negative idx counts from the end; on an empty array nothing is removed.
splice1(arr, idx) ==
    LET n == Len(arr)
        at == IF idx < 0 THEN (IF n + idx < 0 THEN 0 ELSE n + idx) ELSE idx
    IN  IF at >= n
        THEN [rest |-> arr, removed |-> <<>>]
        ELSE [rest |-> SubSeq(arr, 1, at) \o SubSeq(arr, at + 2, n),
              removed |-> <<arr[at + 1]>>]

\* Array.prototype.pop on the removed elements.
pop(arr) == IF Len(arr) = 0 THEN undefinedStr ELSE arr[Len(arr)]

\* ------------------------------------------------------------------ Card

Card(rank, suit) == [rank |-> rank, suit |-> suit]

\* RANKS.indexOf and SUITS.indexOf, tabulated over the characters of card strings.
rankIndex == [r \in {RANKS[i] : i \in DOMAIN RANKS} |-> indexOf(RANKS, r)]
suitIndex == [s \in {SUITS[i] : i \in DOMAIN SUITS} |-> indexOf(SUITS, s)]

CardValue(c) == rankIndex[c.rank] * 4 + suitIndex[c.suit]

CardToString(c) == <<c.rank, c.suit>>

CardFromString(s) == Card(s[1], s[2])

newDeck ==
    [i \in 1..(Len(RANKS) * Len(SUITS)) |->
        Card(RANKS[((i - 1) \div Len(SUITS)) + 1], SUITS[((i - 1) % Len(SUITS)) + 1])]

lowest == CardFromString(<<"3", "C">>)

\* ------------------------------------------------------------------ Play

\* Mutant of sortCards: the comparator is the other way round, highest first.
RECURSIVE sortCardsDescending(_)
sortCardsDescending(cards) ==
    IF Len(cards) <= 1 THEN cards
    ELSE LET i == CHOOSE i \in DOMAIN cards :
                      \A j \in DOMAIN cards : CardValue(cards[i]) >= CardValue(cards[j])
         IN  <<cards[i]>>
             \o sortCardsDescending(SubSeq(cards, 1, i - 1) \o SubSeq(cards, i + 1, Len(cards)))

\* cards.sort((a, b) => (a.value > b.value ? 1 : -1)): ascending by value.
RECURSIVE sortCards(_)
sortCards(cards) ==
    IF Len(cards) <= 1 THEN cards
    ELSE LET i == CHOOSE i \in DOMAIN cards :
                      \A j \in DOMAIN cards : CardValue(cards[i]) <= CardValue(cards[j])
         IN  <<cards[i]>> \o sortCards(SubSeq(cards, 1, i - 1) \o SubSeq(cards, i + 1, Len(cards)))

NewPlay(cards, player) == [cards |-> sortCards(cards), player |-> player]

PlayFromString(s, player) == NewPlay([i \in DOMAIN s |-> CardFromString(s[i])], player)

withSameRank(p) ==
    {Cardinality({i \in DOMAIN p.cards : p.cards[i].rank = r}) :
        r \in {p.cards[i].rank : i \in DOMAIN p.cards}}

\* Mutant of num: the ranks count from 3 up to 2, as they do in Card.value.
numByRank(c) == rankIndex[c.rank]

num(c) == (rankIndex[c.rank] + 2) % 13

SetMin(S) == CHOOSE x \in S : \A y \in S : x <= y
SetMax(S) == CHOOSE x \in S : \A y \in S : x >= y

\* The value of the first card (in sorted order) whose num is n.
findByNum(p, n) ==
    LET i == CHOOSE i \in DOMAIN p.cards :
                 /\ num(p.cards[i]) = n
                 /\ \A j \in 1..(i - 1) : num(p.cards[j]) # n
    IN  CardValue(p.cards[i])

\* Mutant of straight: the Ace is never let be a high card.
straightAceLow(p) ==
    LET numSet == {num(p.cards[i]) : i \in DOMAIN p.cards}
    IN  IF Cardinality(numSet) = 5 /\ SetMin(numSet) + 4 = SetMax(numSet)
        THEN findByNum(p, SetMax(numSet))
        ELSE undefined

straight(p) ==
    LET numSet == {num(p.cards[i]) : i \in DOMAIN p.cards}
    IN  IF Cardinality(numSet) = 5
        THEN IF SetMin(numSet) + 4 = SetMax(numSet)
             THEN findByNum(p, SetMax(numSet))
             ELSE IF SetMin(numSet) = 0
                  THEN LET high == (numSet \ {0}) \cup {13}
                       IN  IF SetMin(high) + 4 = SetMax(high)
                           THEN findByNum(p, 0)
                           ELSE undefined
                  ELSE undefined
        ELSE undefined

\* Mutant of flush: the flush is valued by the value of its highest card.
flushByCardValue(p) ==
    IF \A i \in DOMAIN p.cards : p.cards[i].suit = p.cards[1].suit
    THEN CardValue(p.cards[5])
    ELSE undefined

flush(p) ==
    IF \A i \in DOMAIN p.cards : p.cards[i].suit = p.cards[1].suit
    THEN suitIndex[p.cards[5].suit] * 13 + rankIndex[p.cards[5].rank]
    ELSE undefined

quadro(p) == IF 4 \in withSameRank(p) THEN CardValue(p.cards[2]) ELSE undefined

fullHouse(p) ==
    IF 2 \in withSameRank(p) /\ 3 \in withSameRank(p)
    THEN CardValue(p.cards[3])
    ELSE undefined

\* The kind and comparison value of a five-card play: <<combi, val>>.
combiOf(p) ==
    LET val == straight(p)
    IN  IF truthy(val)
        THEN IF truthy(flush(p))
             THEN <<StraightFlush, val>>
             ELSE <<Straight, val>>
        ELSE IF truthy(quadro(p)) THEN <<Quadro, quadro(p)>>
        ELSE IF truthy(fullHouse(p)) THEN <<FullHouse, fullHouse(p)>>
        ELSE IF truthy(flush(p)) THEN <<Flush, flush(p)>>
        ELSE <<None, 0>>

\* Mutant of PlayValue: the kinds of five cards are 10 apart, not 1000.
PlayValueTens(p) ==
    CASE Len(p.cards) = 1 -> CardValue(p.cards[1])
      [] Len(p.cards) = 2 ->
            IF 2 \in withSameRank(p) THEN CardValue(p.cards[2]) ELSE nullValue
      [] Len(p.cards) = 3 ->
            IF 3 \in withSameRank(p) THEN CardValue(p.cards[1]) ELSE nullValue
      [] Len(p.cards) = 5 ->
            LET c == combiOf(p)
            IN  IF c[1] = None THEN nullValue ELSE c[1] * 10 + c[2]
      [] OTHER -> nullValue

PlayValue(p) ==
    CASE Len(p.cards) = 1 -> CardValue(p.cards[1])
      [] Len(p.cards) = 2 ->
            IF 2 \in withSameRank(p) THEN CardValue(p.cards[2]) ELSE nullValue
      [] Len(p.cards) = 3 ->
            IF 3 \in withSameRank(p) THEN CardValue(p.cards[1]) ELSE nullValue
      [] Len(p.cards) = 5 ->
            LET c == combiOf(p)
            IN  IF c[1] = None THEN nullValue ELSE c[1] * 1000 + c[2]
      [] OTHER -> nullValue

\* ----------------------------------------------------------------- State

VARIABLES
    players,        \* G.players: seat -> the card strings held, in array order
    remaining,      \* G.remaining: seat -> number of cards
    firstTurn,      \* G.firstTurn
    hasStarted,     \* G.hasStarted
    discarded,      \* G.discarded: the groups played, oldest first
    lastPlay,       \* G.lastPlay: a Play or null
    winners,        \* G.winners
    playOrderPos,   \* ctx.playOrderPos (= ctx.currentPlayer, playOrder being 0..3)
    turn,           \* ctx.turn
    gameover,       \* ctx.gameover is set
    move,           \* the move the caller has submitted: its name, seat and arguments
    ret,            \* what that move returned, until the caller has read it
    evaluated       \* EvalSpec: the card list given to Play.fromString, and its value

G == <<players, remaining, firstTurn, hasStarted, discarded, lastPlay, winners>>
ctx == <<playOrderPos, turn, gameover>>
vars == <<players, remaining, firstTurn, hasStarted, discarded, lastPlay, winners,
          playOrderPos, turn, gameover, move, ret, evaluated>>

Seats == 0..(NUM_PLAYERS - 1)

\* ---------------------------------------------------------------- setup

\* The deck orders ctx.random.Shuffle returns here, as indices into newDeck.
\* BaseOrder deals
\*   seat 0: 3C 3S 3H 4C 4S  5C 5S 5H 5D 6C  7C 7S 7H
\*   seat 1: 8C 8S 8H 9C 9S  9H TC TS TH TD  JC JS JH
\*   seat 2: QC QS QH KC KS  KH AC AS AH AD  2C 2S 2H
\*   seat 3: 6S 6H 6D 4H 4D  3D 7D 8D 9D JD  QD KD 2D
BaseOrder ==
    <<0, 1, 2, 4, 5, 8, 9, 10, 11, 12, 16, 17, 18,
      20, 21, 22, 24, 25, 26, 28, 29, 30, 31, 32, 33, 34,
      36, 37, 38, 40, 41, 42, 44, 45, 46, 47, 48, 49, 50,
      13, 14, 15, 6, 7, 3, 19, 23, 27, 35, 39, 43, 51>>

\* Shuffle k moves the hands k seats up; for odd k the first two cards of every
\* hand change places as well.
ShuffleOrder(k) ==
    LET swapped == [i \in 1..52 |->
                       IF k % 2 = 1 /\ (i - 1) % 13 = 0 THEN BaseOrder[i + 1]
                       ELSE IF k % 2 = 1 /\ (i - 1) % 13 = 1 THEN BaseOrder[i - 1]
                       ELSE BaseOrder[i]]
    IN  [i \in 1..52 |-> swapped[((i - 1 + 52 - 13 * (k % 4)) % 52) + 1]]

Shuffle(k) == [i \in 1..52 |-> newDeck[ShuffleOrder(k)[i] + 1]]

\* deck.splice(0, 13) for each player in turn.
dealtHand(deck, player) == SubSeq(deck, 13 * player + 1, 13 * player + 13)

\* Mutant of hasLowest: a card of the lowest rank is taken for the lowest card.
hasLowestRank(hand) == \E i \in DOMAIN hand : hand[i].rank = lowest.rank

hasLowest(hand) == \E i \in DOMAIN hand : CardValue(hand[i]) = CardValue(lowest)

\* Mutant of firstTurnOf: firstTurn stays at its initial 0.
firstTurnOfFirstSeat(deck) == 0

\* firstTurn: the last player dealt a hand holding the lowest card, else 0.
firstTurnOf(deck) ==
    IF \E p \in Seats : hasLowest(dealtHand(deck, p))
    THEN SetMax({p \in Seats : hasLowest(dealtHand(deck, p))})
    ELSE 0

Setup(deck) ==
    /\ players = [p \in Seats |->
                    [i \in 1..13 |-> CardToString(dealtHand(deck, p)[i])]]
    /\ remaining = [p \in Seats |-> Len(dealtHand(deck, p))]
    /\ firstTurn = firstTurnOf(deck)
    /\ hasStarted = FALSE
    /\ discarded = <<>>
    /\ lastPlay = null
    /\ winners = <<>>

Init ==
    /\ \E k \in 0..MaxShuffle : Setup(Shuffle(k))
    /\ playOrderPos = firstTurn
    /\ turn = 1
    /\ gameover = FALSE
    /\ move = [name |-> "none", player |-> firstTurn, cards |-> <<>>]
    /\ ret = "none"
    /\ evaluated = null

\* ------------------------------------------------------------ turn order

\* getNext(G, ctx): the loop from i. With every seat in winners the loop never
\* ends; that is reported as undefined.
RECURSIVE getNextFrom(_, _, _)
getNextFrom(w, pos, i) ==
    IF i > 2 * NUM_PLAYERS THEN undefined
    ELSE LET nextPlayer == (pos + i) % NUM_PLAYERS
         IN  IF includes(w, nextPlayer)
             THEN getNextFrom(w, pos, i + 1)
             ELSE nextPlayer

\* Mutant of getNext: the rotation without the skip of winners.
getNextNoSkip(w, pos) == (pos + 1) % NUM_PLAYERS

\* Mutant of getNext: the loop starts at the seat that has just acted.
getNextFromZero(w, pos) == getNextFrom(w, pos, 0)

getNext(w, pos) == getNextFrom(w, pos, 1)

\* Mutant of endIf: the round ends when every seat has gone out.
endIfAllOut(w) == Len(w) = NUM_PLAYERS

endIf(w) == Len(w) = 3

currentPlayer == playOrderPos

\* ctx.events.endTurn(), then the framework's endIf check.
EndTurn(w) ==
    /\ playOrderPos' = getNext(w, playOrderPos)
    /\ turn' = turn + 1
    /\ gameover' = endIf(w)

\* ----------------------------------------------------------- moves.play

\* playString.every((c) => hand.includes(c))
heldAll(hand, playString) ==
    \A i \in DOMAIN playString : includes(hand, playString[i])

\* Mutant of isLowestInPlay: any card of the lowest rank will do.
isLowestRankInPlay(playString) ==
    \E i \in DOMAIN playString : playString[i][1] = lowest.rank

isLowestInPlay(playString) == includes(playString, CardToString(lowest))

\* Mutant of playInvalid: the comparison of lengths is missing.
playInvalidAnyLength(hand, play, playString, lp, started) ==
    \/ PlayValue(play) = nullValue
    \/ ~heldAll(hand, playString)
    \/ /\ lp = null
       /\ ~started
       /\ ~isLowestInPlay(playString)
    \/ /\ lp # null
       /\ PlayValue(play) < PlayValue(lp)

\* The checks of play that return INVALID_MOVE, in the code's order.
playInvalid(hand, play, playString, lp, started) ==
    \/ PlayValue(play) = nullValue
    \/ ~heldAll(hand, playString)
    \/ /\ lp = null
       /\ ~started
       /\ ~isLowestInPlay(playString)
    \/ /\ lp # null
       /\ \/ Len(lp.cards) # Len(play.cards)
          \/ PlayValue(play) < PlayValue(lp)

\* playString.map((card) => hand.splice(hand.indexOf(card), 1).pop()), from
\* position i on: the hand left and the cards taken.
RECURSIVE takeFromHand(_, _, _)
takeFromHand(hand, playString, i) ==
    IF i > Len(playString)
    THEN [hand |-> hand, discard |-> <<>>]
    ELSE LET s == splice1(hand, indexOf(hand, playString[i]))
             t == takeFromHand(s.rest, playString, i + 1)
         IN  [hand |-> t.hand, discard |-> <<pop(s.removed)>> \o t.discard]

\* Mutant of rejected: hasStarted is set before the checks are made.
rejectedAfterStart ==
    /\ ret' = INVALID_MOVE
    /\ hasStarted' = TRUE
    /\ UNCHANGED <<players, remaining, firstTurn, discarded, lastPlay, winners, ctx>>

\* return INVALID_MOVE: the move is refused and G stays as it was.
rejected ==
    /\ ret' = INVALID_MOVE
    /\ UNCHANGED <<G, ctx>>

play(cards) ==
    /\ ret = "none"
    /\ ~gameover
    /\ move' = [name |-> "play", player |-> currentPlayer, cards |-> cards]
    /\ UNCHANGED evaluated
    /\ LET hand == players[currentPlayer]
           p == PlayFromString(cards, currentPlayer)
           playString == [i \in DOMAIN p.cards |-> CardToString(p.cards[i])]
       IN  IF playInvalid(hand, p, playString, lastPlay, hasStarted)
           THEN rejected
           ELSE LET t == takeFromHand(hand, playString, 1)
                IN  /\ hasStarted' = IF lastPlay = null /\ ~hasStarted THEN TRUE ELSE hasStarted
                    /\ players' = [players EXCEPT ![currentPlayer] = t.hand]
                    /\ discarded' = Append(discarded, t.discard)
                    /\ winners' = IF Len(t.hand) = 0
                                  THEN Append(winners, currentPlayer)
                                  ELSE winners
                    /\ lastPlay' = IF Len(t.hand) = 0 THEN null ELSE p
                    /\ remaining' = [remaining EXCEPT ![currentPlayer] = Len(t.hand)]
                    /\ EndTurn(winners')
                    /\ ret' = "accepted"
                    /\ UNCHANGED firstTurn

\* ----------------------------------------------------------- moves.pass

\* Mutant of passInvalid: the check for an empty table is missing.
passInvalidNever(lp) == FALSE

passInvalid(lp) == lp = null

\* Mutant of othersPassed: the owner is looked for at the next seat, winners or not.
othersPassedNoSkip(lp, w, pos) == lp # null /\ lp.player = (pos + 1) % NUM_PLAYERS

\* Mutant of othersPassed: the owner is looked for at the seat that passes.
othersPassedOwnSeat(lp, w, pos) == lp # null /\ lp.player = pos

\* Mutant of othersPassed: no pass clears the table.
othersPassedNever(lp, w, pos) == FALSE

\* Mutant of othersPassed: every pass clears the table.
othersPassedAlways(lp, w, pos) == lp # null

\* G.lastPlay?.player === getNext(G, ctx)
othersPassed(lp, w, pos) == lp # null /\ lp.player = getNext(w, pos)

pass ==
    /\ ret = "none"
    /\ ~gameover
    /\ move' = [name |-> "pass", player |-> currentPlayer, cards |-> <<>>]
    /\ UNCHANGED evaluated
    /\ IF passInvalid(lastPlay)
       THEN rejected
       ELSE /\ lastPlay' = IF othersPassed(lastPlay, winners, playOrderPos)
                           THEN null
                           ELSE lastPlay
            /\ EndTurn(winners)
            /\ ret' = "accepted"
            /\ UNCHANGED <<players, remaining, firstTurn, hasStarted, discarded, winners>>

\* ------------------------------------------------------------ submissions

Min(a, b) == IF a < b THEN a ELSE b

\* The first n cards of a hand.
firstCards(hand, n) == SubSeq(hand, 1, Min(n, Len(hand)))

\* The card lists the seat to act submits: the first 0..MaxLen cards of its hand,
\* the first 1..MaxForeign cards of the hand of the seat after it, and its first
\* card named twice.
Submissions ==
    {firstCards(players[currentPlayer], n) : n \in 0..MaxLen}
    \cup {firstCards(players[(currentPlayer + 1) % NUM_PLAYERS], n) : n \in 1..MaxForeign}
    \cup (IF Len(players[currentPlayer]) = 0
          THEN {}
          ELSE {<<players[currentPlayer][1], players[currentPlayer][1]>>})

\* play(cards) by the seat to act would be accepted in this state.
playAccepted(cards) ==
    LET p == PlayFromString(cards, currentPlayer)
        playString == [i \in DOMAIN p.cards |-> CardToString(p.cards[i])]
    IN  ~playInvalid(players[currentPlayer], p, playString, lastPlay, hasStarted)

\* The caller reads the verdict of its move and is ready to submit the next.
Return ==
    /\ ret # "none"
    /\ ret' = "none"
    /\ move' = [name |-> "none", player |-> currentPlayer, cards |-> <<>>]
    /\ UNCHANGED <<G, ctx, evaluated>>

Next ==
    \/ \E cards \in Submissions : turn <= MaxTurn /\ play(cards)
    \/ turn <= MaxTurn /\ pass
    \/ Return

Spec == Init /\ [][Next]_vars

\* ------------------------------------------- the round played to its end

\* The lengths of the first cards of its hand that play accepts from the seat
\* to act.
acceptedLengths ==
    {n \in 1..MaxLen :
        /\ n <= Len(players[currentPlayer])
        /\ playAccepted(firstCards(players[currentPlayer], n))}

\* The card lists submitted in LiveSpec: every list of Submissions in the first
\* MaxFreeTurn turns; from then on the longest run of first cards that play
\* accepts.
LiveSubmissions ==
    IF turn <= MaxFreeTurn
    THEN Submissions
    ELSE IF acceptedLengths = {}
    THEN {}
    ELSE {firstCards(players[currentPlayer], SetMax(acceptedLengths))}

\* After the first MaxFreeTurn turns a seat passes when play accepts none of
\* its runs of first cards.
LiveNext ==
    \/ \E cards \in LiveSubmissions : play(cards)
    \/ (turn <= MaxFreeTurn \/ acceptedLengths = {}) /\ pass
    \/ Return

\* The seat to act submits a move that is accepted.
AcceptedMove == LiveNext /\ ret' = "accepted"

\* The round is on and the caller is ready to submit a move. An accepted move
\* can be submitted exactly then: pass when lastPlay is present, else a card.
canSubmit == ret = "none" /\ ~gameover

\* The caller always reads the verdict of its move, and the seat to act always
\* eventually submits an accepted move: strong fairness of AcceptedMove, with
\* canSubmit for ENABLED <<AcceptedMove>>_vars.
LiveSpec ==
    /\ Init
    /\ [][LiveNext]_vars
    /\ WF_vars(Return)
    /\ ([]<>canSubmit => []<><<AcceptedMove>>_vars)

\* -------------------------------------------------- setup, every deal

\* The deck orders ctx.random.Shuffle returns in SetupSpec: newDeck cut at `cut`
\* cards and taken every (2 * stride + 1)-th card, which is a permutation of the
\* 52 cards whenever 2 * stride + 1 is not a multiple of 13.
ShuffleCut(stride, cut) ==
    [i \in 1..52 |-> newDeck[(((2 * stride + 1) * (i - 1) + cut) % 52) + 1]]

SetupInit ==
    /\ \E stride \in 0..MaxStride, cut \in 0..MaxCut :
          /\ (2 * stride + 1) % 13 # 0
          /\ Setup(ShuffleCut(stride, cut))
    /\ playOrderPos = firstTurn
    /\ turn = 1
    /\ gameover = FALSE
    /\ move = [name |-> "none", player |-> firstTurn, cards |-> <<>>]
    /\ ret = "none"
    /\ evaluated = null

\* The moves of the first turn of the round.
SetupNext == turn = 1 /\ Next

SetupSpec == SetupInit /\ [][SetupNext]_vars

\* ------------------------------------------------ Play.value, every card set

cardString(r, s) == CardToString(Card(RANKS[r + 1], SUITS[s + 1]))

\* The elements of a set of numbers, highest first.
RECURSIVE descending(_)
descending(S) ==
    IF S = {} THEN <<>> ELSE <<SetMax(S)>> \o descending(S \ {SetMax(S)})

\* The card strings of the cards at the places in S of deck, highest place first.
cardsAt(deck, S) ==
    [i \in 1..Cardinality(S) |-> CardToString(deck[descending(S)[i] + 1])]

\* Every set of two and of three cards of the deck.
Pairs(deck) ==
    {cardsAt(deck, {c[1], c[2]}) : c \in {c \in (0..51) \X (0..51) : c[1] < c[2]}}
Triples(deck) ==
    {cardsAt(deck, {c[1], c[2], c[3]}) :
        c \in {c \in (0..51) \X (0..51) \X (0..51) : c[1] < c[2] /\ c[2] < c[3]}}

\* Every set of five ranks, highest rank first; the suit of the first card is
\* `start` and moves on by `step` from card to card (step 0: one suit).
FiveRanks(maxStep) ==
    {[i \in 1..5 |-> cardString(descending(S)[i], (start + step * (i - 1)) % 4)] :
        S \in {S \in SUBSET (0..12) : Cardinality(S) = 5},
        start \in 0..3, step \in 0..maxStep}

\* Every run of five ranks in the circle 3 4 .. K A 2 3, in every choice of the
\* suits.
RunsEverySuit(suits) ==
    {[i \in 1..5 |-> cardString(descending(c[1])[i], c[2][i])] :
        c \in {{(r + i) % 13 : i \in 0..4} : r \in 0..12} \X [1..5 -> suits]}

\* The four cards of a rank with every card of another rank.
FourAndOne(deck) ==
    {cardsAt(deck, {4 * c[1], 4 * c[1] + 1, 4 * c[1] + 2, 4 * c[1] + 3, c[2]}) :
        c \in {c \in (0..12) \X (0..51) : c[2] \div 4 # c[1]}}

\* Three cards of a rank with two cards of another rank.
ThreeAndTwo(deck) ==
    {cardsAt(deck, ({4 * r[1] + s : s \in 0..3} \ {4 * r[1] + out})
                   \cup {4 * r[2] + t[1], 4 * r[2] + t[2]}) :
        r \in {r \in (0..12) \X (0..12) : r[1] # r[2]}, out \in 0..3,
        t \in {t \in (0..3) \X (0..3) : t[1] < t[2]}}

\* The card list Play.fromString is given is drawn from these lists of distinct
\* cards.
EvalInit ==
    /\ Setup(Shuffle(0))
    /\ playOrderPos = firstTurn
    /\ turn = 1
    /\ gameover = FALSE
    /\ move = [name |-> "none", player |-> firstTurn, cards |-> <<>>]
    /\ ret = "none"
    /\ \/ evaluated \in {[cards |-> c] : c \in Pairs(newDeck)}
       \/ evaluated \in {[cards |-> c] : c \in Triples(newDeck)}
       \/ evaluated \in {[cards |-> c] : c \in FiveRanks(MaxSuitStep)}
       \/ evaluated \in {[cards |-> c] : c \in RunsEverySuit(0..3)}
       \/ evaluated \in {[cards |-> c] : c \in FourAndOne(newDeck)}
       \/ evaluated \in {[cards |-> c] : c \in ThreeAndTwo(newDeck)}

\* Play.fromString(cards, player).value
Evaluate ==
    /\ DOMAIN evaluated = {"cards"}
    /\ evaluated' = [cards |-> evaluated.cards,
                     value |-> PlayValue(PlayFromString(evaluated.cards, undefined))]
    /\ UNCHANGED <<G, ctx, move, ret>>

EvalNext == Evaluate

EvalSpec == EvalInit /\ [][EvalNext]_vars

\* ------------------------------------------------------------ properties

AllCards == {CardToString(newDeck[i]) : i \in DOMAIN newDeck}

\* How many times x occurs in seq.
count(seq, x) == Cardinality({i \in DOMAIN seq : seq[i] = x})

\* The seat holds every submitted card, one held card for each time it is named.
holdsCards(hand, cards) ==
    \A i \in DOMAIN cards : count(cards, cards[i]) <= count(hand, cards[i])

\* The submitted list evaluates to a combination.
isCombination(cards) == PlayValue(PlayFromString(cards, undefined)) # nullValue

\* The first seat after s, going round the table, that is not in winners.
nextInRotation(w, s) ==
    LET d == SetMin({e \in 1..NUM_PLAYERS : ~includes(w, (s + e) % NUM_PLAYERS)})
    IN  (s + d) % NUM_PLAYERS

playReturned(r) == move.name = "play" /\ ret = r
passReturned(r) == move.name = "pass" /\ ret = r

\* The sequences of a sequence, one after the other.
RECURSIVE flatten(_)
flatten(seqs) == IF Len(seqs) = 0 THEN <<>> ELSE seqs[1] \o flatten(Tail(seqs))

isCardString(c) == c \in AllCards

\* C1: a play or a pass that returns INVALID_MOVE leaves players (hands),
\* remaining, firstTurn, hasStarted, discarded, lastPlay and winners as they were.
C1_RejectedMoveKeepsState ==
    [][ret' = INVALID_MOVE =>
          /\ players' = players
          /\ remaining' = remaining
          /\ firstTurn' = firstTurn
          /\ hasStarted' = hasStarted
          /\ discarded' = discarded
          /\ lastPlay' = lastPlay
          /\ winners' = winners]_vars

\* C1 witness: a held, valid play was refused after some play had been accepted.
C1_Witness ==
    /\ playReturned(INVALID_MOVE)
    /\ Len(discarded) > 0
    /\ isCombination(move.cards)
    /\ holdsCards(players[move.player], move.cards)

\* C2: a play of a valid combination is refused whenever the seat does not hold
\* all the submitted cards, a card named twice and held once included.
C2_NotHeldIsRejected ==
    [][(/\ move'.name = "play"
        /\ ret = "none"
        /\ ret' # "none"
        /\ isCombination(move'.cards)
        /\ ~holdsCards(players[move'.player], move'.cards))
       => ret' = INVALID_MOVE]_vars

\* C3: before the round has started a play without 3C is refused, the play of
\* 3C alone by the seat holding it is accepted and sets hasStarted, and the first
\* group of discarded holds 3C.
C3_FirstPlayHasLowest ==
    [][/\ (/\ move'.name = "play"
           /\ ret = "none"
           /\ ret' # "none"
           /\ ~hasStarted
           /\ ~includes(move'.cards, <<"3", "C">>))
          => ret' = INVALID_MOVE
       /\ (/\ move'.name = "play"
           /\ ret = "none"
           /\ ret' # "none"
           /\ ~hasStarted
           /\ move'.cards = << <<"3", "C">> >>
           /\ includes(players[move'.player], <<"3", "C">>))
          => (ret' = "accepted" /\ hasStarted')
       /\ Len(discarded') > 0 => includes(discarded'[1], <<"3", "C">>)]_vars

\* C3 witness: the lead of 3C alone has been accepted.
C3_Witness ==
    /\ playReturned("accepted")
    /\ move.cards = << <<"3", "C">> >>
    /\ discarded = << << <<"3", "C">> >> >>
    /\ hasStarted

\* C4: with lastPlay present, an accepted play has as many cards as lastPlay and
\* a strictly greater evaluator value.
C4_MustBeatLastPlay ==
    [][(/\ move'.name = "play"
        /\ ret = "none"
        /\ ret' = "accepted"
        /\ lastPlay # null)
       => /\ Len(move'.cards) = Len(lastPlay.cards)
          /\ PlayValue(PlayFromString(move'.cards, move'.player)) > PlayValue(lastPlay)]_vars

\* C4 witness: a held combination of another length than lastPlay was refused.
C4_Witness ==
    /\ playReturned(INVALID_MOVE)
    /\ lastPlay # null
    /\ isCombination(move.cards)
    /\ holdsCards(players[move.player], move.cards)
    /\ Len(move.cards) # Len(lastPlay.cards)

\* C5: an accepted play takes exactly the submitted cards out of the seat's hand
\* and nothing else, appends exactly them to discarded, leaves the other hands
\* alone, and is lastPlay unless the hand became empty.
C5_PlayRemovesSubmitted ==
    [][(/\ move'.name = "play"
        /\ ret = "none"
        /\ ret' = "accepted")
       => LET seat == move'.player
              cards == move'.cards
          IN  /\ Len(players'[seat]) = Len(players[seat]) - Len(cards)
              /\ \A c \in AllCards :
                    count(players'[seat], c) = count(players[seat], c) - count(cards, c)
              /\ Len(discarded') = Len(discarded) + 1
              /\ \A c \in AllCards \cup {undefinedStr} :
                    count(discarded'[Len(discarded')], c) = count(cards, c)
              /\ \A o \in Seats \ {seat} : players'[o] = players[o]
              /\ Len(players'[seat]) > 0 => lastPlay' = PlayFromString(cards, seat)]_vars

\* C6: the hands and the groups of discarded hold each of the 52 cards exactly
\* once between them, and remaining[seat] is the size of the seat's hand.
C6_CardConservation ==
    /\ LET held == flatten([i \in 1..NUM_PLAYERS |-> players[i - 1]]) \o flatten(discarded)
           cards == SelectSeq(held, isCardString)
       IN  \* 52 entries that are cards, and every card among them
           /\ Len(cards) = Cardinality(AllCards)
           /\ {cards[i] : i \in DOMAIN cards} = AllCards
    /\ \A p \in Seats : remaining[p] = Len(players[p])

\* C6 witness: a seat has played and gone out, two more groups lie in discarded.
C6_Witness ==
    /\ Len(winners) > 0
    /\ Len(discarded) > 3
    /\ remaining[winners[1]] = 0

\* C7: a seat whose hand a play emptied is in winners exactly once, lastPlay is
\* cleared, the seat is skipped when the next seat is computed; winners has no
\* duplicates and holds exactly the seats with an empty hand.
C7_WinnersAreOut ==
    /\ \A i, j \in DOMAIN winners : winners[i] = winners[j] => i = j
    /\ \A p \in Seats : includes(winners, p) <=> Len(players[p]) = 0
    /\ \A pos \in Seats : ~includes(winners, getNext(winners, pos))
    /\ ~includes(winners, playOrderPos)
    /\ (playReturned("accepted") /\ Len(players[move.player]) = 0)
          => /\ lastPlay = null
             /\ count(winners, move.player) = 1
             /\ playOrderPos # move.player

\* C7 witness: a seat has just gone out and a winner was skipped over to find
\* the next seat.
C7_Witness ==
    /\ playReturned("accepted")
    /\ Len(players[move.player]) = 0
    /\ Len(winners) = 2
    /\ includes(winners, (move.player + 1) % NUM_PLAYERS)

\* C8: the round is over exactly when winners has 3 seats; nothing is applied
\* after that, winners never has 4 seats and the fourth seat keeps cards.
C8_CompleteAtThreeWinners ==
    [][/\ gameover' <=> Len(winners') = 3
       /\ Len(winners') <= 3
       /\ Len(winners) = 3 => UNCHANGED <<G, ctx>>
       /\ Len(winners') = 3 =>
             Cardinality({p \in Seats : Len(players'[p]) > 0}) = 1]_vars

\* C8 witness: the third seat has gone out.
C8_Witness ==
    /\ gameover
    /\ Len(winners) = 3
    /\ ret = "none"

\* C9: when the passes have gone round to the owner of lastPlay, the last pass
\* clears lastPlay and the owner acts next; lastPlay's owner is never the seat to
\* act; and on a cleared table any held combination of any length is accepted.
C9_PassAroundClearsTable ==
    [][/\ (/\ move'.name = "pass"
           /\ ret = "none"
           /\ ret' = "accepted"
           /\ lastPlay # null
           /\ nextInRotation(winners, playOrderPos) = lastPlay.player)
          => (lastPlay' = null /\ playOrderPos' = lastPlay.player)
       /\ lastPlay' # null => lastPlay'.player # playOrderPos'
       /\ (/\ move'.name = "play"
           /\ ret = "none"
           /\ ret' # "none"
           /\ hasStarted
           /\ lastPlay = null
           /\ isCombination(move'.cards)
           /\ holdsCards(players[move'.player], move'.cards))
          => ret' = "accepted"]_vars

\* C9 witness: with two seats out, the only other seat has passed on the
\* leader's play, which cleared the table and gave the turn back to the leader.
C9_Witness ==
    /\ passReturned("accepted")
    /\ Len(winners) = 2
    /\ hasStarted
    /\ lastPlay = null
    /\ playOrderPos # move.player

\* C10: pass is refused when lastPlay is absent and accepted when it is present.
C10_PassNeedsLastPlay ==
    [][(move'.name = "pass" /\ ret = "none" /\ ret' # "none")
       => (ret' = INVALID_MOVE <=> lastPlay = null)]_vars

\* C10 witness: a pass was refused on a table that a seat going out had cleared.
C10_Witness ==
    /\ passReturned(INVALID_MOVE)
    /\ hasStarted
    /\ Len(winners) > 0

\* C11: after every accepted move by seat s the seat to act is the first of
\* (s+1)%4, (s+2)%4, ... that is not in winners: it is never a winner, it is
\* (s+1)%4 while winners is empty, and the search for it ends from every seat
\* while fewer than 4 seats are in winners.
C11_SkipAwareTurnOrder ==
    [][(ret = "none" /\ ret' = "accepted")
       => /\ move'.player = playOrderPos
          /\ playOrderPos' = nextInRotation(winners', playOrderPos)
          /\ ~includes(winners', playOrderPos')
          /\ winners' = <<>> => playOrderPos' = (playOrderPos + 1) % NUM_PLAYERS
          /\ Len(winners') < NUM_PLAYERS
          /\ \A pos \in Seats : getNext(winners', pos) \in Seats]_vars

\* C11 witness: a pass was accepted and the turn went over a seat that is out.
C11_Witness ==
    /\ passReturned("accepted")
    /\ winners # <<>>
    /\ includes(winners, (move.player + 1) % NUM_PLAYERS)
    /\ playOrderPos # (move.player + 1) % NUM_PLAYERS
    /\ playOrderPos # move.player

valued == "value" \in DOMAIN evaluated

\* The ranks and suits of a list of card strings.
ranksOf(cards) == {cards[i][1] : i \in DOMAIN cards}
suitsOf(cards) == {cards[i][2] : i \in DOMAIN cards}

\* The card of the list that has rank r.
ofRank(cards, r) == CardFromString(cards[CHOOSE i \in DOMAIN cards : cards[i][1] = r])

\* The value of a straight whose top card is c: a straight flush when the
\* cards are of one suit.
straightValue(cards, c) ==
    (IF Cardinality(suitsOf(cards)) = 1 THEN StraightFlush ELSE Straight) * 1000
    + CardValue(c)

\* C13 as stated: in every choice of suits, five cards of ranks J Q K A 2 are a
\* Straight (a StraightFlush when of one suit), never invalid, valued by the 2.
C13_WrapIsStraight ==
    (valued /\ ranksOf(evaluated.cards) = {"J", "Q", "K", "A", "2"})
    => evaluated.value = straightValue(evaluated.cards, ofRank(evaluated.cards, "2"))

\* C13 amended: in every choice of suits, five cards of ranks T J Q K A are a
\* Straight (a StraightFlush when of one suit), never invalid, valued by the
\* Ace; five cards of ranks J Q K A 2 are no straight: they are a Flush when of
\* one suit and invalid otherwise.
C13_AceHighIsStraight ==
    /\ (valued /\ ranksOf(evaluated.cards) = {"T", "J", "Q", "K", "A"})
       => evaluated.value = straightValue(evaluated.cards, ofRank(evaluated.cards, "A"))
    /\ (valued /\ ranksOf(evaluated.cards) = {"J", "Q", "K", "A", "2"})
       => IF Cardinality(suitsOf(evaluated.cards)) = 1
          THEN evaluated.value \div 1000 = Flush
          ELSE evaluated.value = nullValue

\* C13 witness: T J Q K A of more than one suit has been evaluated.
C13_Witness ==
    /\ valued
    /\ ranksOf(evaluated.cards) = {"T", "J", "Q", "K", "A"}
    /\ Cardinality(suitsOf(evaluated.cards)) = 4
    /\ evaluated.value \div 1000 = Straight

\* The five-card list was valued as a Straight or a StraightFlush.
isStraight(value) == value \div 1000 \in {Straight, StraightFlush}

\* The ranks are five ranks in a row of the ordering `order`.
inARow(ranks, order) ==
    \E k \in 1..(Len(order) - 4) : ranks = {order[k + i] : i \in 0..4}

\* The rank of `ranks` that comes last in the ordering `order`.
lastIn(ranks, order) ==
    order[SetMax({k \in DOMAIN order : order[k] \in ranks})]

\* C14 as stated: five cards are a Straight exactly when their ranks are five
\* in a row of 3 4 5 6 7 8 9 T J Q K or are J Q K A 2 (so A 2 3 4 5, 2 3 4 5 6
\* and T J Q K A are none), and a Straight is valued by its highest card in the
\* ordering 3 .. K A 2.
C14_StraightRunsFromThree ==
    (valued /\ Len(evaluated.cards) = 5)
    => LET ranks == ranksOf(evaluated.cards)
       IN  /\ isStraight(evaluated.value)
              <=> \/ inARow(ranks, SubSeq(RANKS, 1, 11))
                  \/ ranks = {"J", "Q", "K", "A", "2"}
           /\ isStraight(evaluated.value)
              => evaluated.value % 1000 =
                    CardValue(ofRank(evaluated.cards, lastIn(ranks, RANKS)))

\* C14 amended: five cards are a Straight exactly when their ranks are five in
\* a row of A 2 3 4 5 6 7 8 9 T J Q K or are T J Q K A (so A 2 3 4 5, 2 3 4 5 6
\* and T J Q K A are Straights and J Q K A 2 is none), and a Straight is valued
\* by its highest card in that ordering, T J Q K A by its Ace.
C14_StraightRunsFromAce ==
    (valued /\ Len(evaluated.cards) = 5)
    => LET ranks == ranksOf(evaluated.cards)
           aceLow == <<"A", "2">> \o SubSeq(RANKS, 1, 11)
           aceHigh == SubSeq(RANKS, 8, 12)
       IN  /\ isStraight(evaluated.value)
              <=> (inARow(ranks, aceLow) \/ inARow(ranks, aceHigh))
           /\ inARow(ranks, aceLow)
              => evaluated.value % 1000 =
                    CardValue(ofRank(evaluated.cards, lastIn(ranks, aceLow)))
           /\ inARow(ranks, aceHigh)
              => evaluated.value % 1000 =
                    CardValue(ofRank(evaluated.cards, lastIn(ranks, aceHigh)))

\* C14 witness: A 2 3 4 5 of more than one suit has been valued as a Straight
\* by its 5.
C14_Witness ==
    /\ valued
    /\ ranksOf(evaluated.cards) = {"A", "2", "3", "4", "5"}
    /\ evaluated.value = Straight * 1000 + CardValue(ofRank(evaluated.cards, "5"))

\* How many cards of the list have rank r.
ofRankCount(cards, r) == Cardinality({i \in DOMAIN cards : cards[i][1] = r})

\* The kind of five distinct cards, read off the cards: the runs of ranks are
\* those of A 2 3 .. K and T J Q K A.
kindOf(cards) ==
    LET ranks == ranksOf(cards)
        run == \/ inARow(ranks, <<"A", "2">> \o SubSeq(RANKS, 1, 11))
               \/ inARow(ranks, SubSeq(RANKS, 8, 12))
        oneSuit == Cardinality(suitsOf(cards)) = 1
    IN  IF run /\ oneSuit THEN StraightFlush
        ELSE IF \E r \in ranks : ofRankCount(cards, r) = 4 THEN Quadro
        ELSE IF Cardinality(ranks) = 2 THEN FullHouse
        ELSE IF oneSuit THEN Flush
        ELSE IF run THEN Straight
        ELSE None

\* The lowest and the highest combination of each kind.
Extremes ==
    {<<<<"A", "D">>, <<"2", "D">>, <<"3", "D">>, <<"4", "D">>, <<"5", "C">>>>,
     <<<<"T", "C">>, <<"J", "C">>, <<"Q", "C">>, <<"K", "C">>, <<"A", "D">>>>,
     <<<<"3", "C">>, <<"4", "C">>, <<"5", "C">>, <<"6", "C">>, <<"8", "C">>>>,
     <<<<"3", "D">>, <<"5", "D">>, <<"7", "D">>, <<"9", "D">>, <<"2", "D">>>>,
     <<<<"3", "C">>, <<"3", "S">>, <<"3", "H">>, <<"4", "C">>, <<"4", "S">>>>,
     <<<<"A", "H">>, <<"A", "D">>, <<"2", "S">>, <<"2", "H">>, <<"2", "D">>>>,
     <<<<"3", "C">>, <<"3", "S">>, <<"3", "H">>, <<"3", "D">>, <<"4", "C">>>>,
     <<<<"A", "D">>, <<"2", "C">>, <<"2", "S">>, <<"2", "H">>, <<"2", "D">>>>,
     <<<<"A", "C">>, <<"2", "C">>, <<"3", "C">>, <<"4", "C">>, <<"5", "C">>>>,
     <<<<"T", "D">>, <<"J", "D">>, <<"Q", "D">>, <<"K", "D">>, <<"A", "D">>>>}

\* C15: of two valid five-card combinations of different kinds the one of the
\* higher kind (Straight < Flush < FullHouse < Quadro < StraightFlush) has the
\* greater value whatever the comparison values; every comparison value of
\* five cards is in 1..51, so kind * 1000 + comparison value stays in the range
\* of its kind and is never taken for no combination.
C15_HigherKindWins ==
    (valued /\ Len(evaluated.cards) = 5)
    => LET kind == kindOf(evaluated.cards)
       IN  /\ kind = None <=> evaluated.value = nullValue
           /\ kind # None
              => /\ evaluated.value \div 1000 = kind
                 /\ evaluated.value % 1000 \in 1..51
                 /\ \A other \in Extremes :
                       LET otherValue == PlayValue(PlayFromString(other, undefined))
                       IN  /\ otherValue # nullValue
                           /\ kindOf(other) > kind => otherValue > evaluated.value
                           /\ kindOf(other) < kind => otherValue < evaluated.value

\* C15 witness: the highest Straight has been valued, below the lowest Flush.
C15_Witness ==
    /\ valued
    /\ Len(evaluated.cards) = 5
    /\ kindOf(evaluated.cards) = Straight
    /\ evaluated.value = Straight * 1000 + 47

\* The values of the cards of a list of card strings.
valuesOf(cards) == {CardValue(CardFromString(cards[i])) : i \in DOMAIN cards}

\* C16: two distinct cards are valid exactly when they are of one rank, valued
\* by the higher card; three distinct cards are valid exactly when they are of
\* one rank, valued by the lowest card; every other list of two or three cards
\* evaluates to null.
C16_PairsAndTriples ==
    /\ (valued /\ Len(evaluated.cards) = 2)
       => evaluated.value =
             IF Cardinality(ranksOf(evaluated.cards)) = 1
             THEN SetMax(valuesOf(evaluated.cards))
             ELSE nullValue
    /\ (valued /\ Len(evaluated.cards) = 3)
       => evaluated.value =
             IF Cardinality(ranksOf(evaluated.cards)) = 1
             THEN SetMin(valuesOf(evaluated.cards))
             ELSE nullValue

\* C16 witness: 2D 2H 2S has been valued by the 2S.
C16_Witness ==
    /\ valued
    /\ evaluated.cards = <<<<"2", "D">>, <<"2", "H">>, <<"2", "S">>>>
    /\ evaluated.value = 49

\* The card of the list that is highest by Card.value.
highestOf(cards) ==
    CardFromString(cards[CHOOSE i \in DOMAIN cards :
        CardValue(CardFromString(cards[i])) = SetMax(valuesOf(cards))])

\* In each suit, the flushes 3 4 5 7 with each rank from 8 up to 2.
Flushes ==
    {[i \in 1..5 |-> cardString(descending({0, 1, 2, 4, top})[i], suit)] :
        top \in 5..12, suit \in 0..3}

\* C17: a Flush that is no straight has the comparison value suitIndex * 13 +
\* rankIndex of its highest card; of two Flushes of different suits the one of
\* the higher suit (C < S < H < D) has the greater value whatever the ranks, and
\* of two of one suit the one with the higher top rank.
C17_FlushSuitAboveRank ==
    (valued /\ Len(evaluated.cards) = 5 /\ kindOf(evaluated.cards) = Flush)
    => LET top == highestOf(evaluated.cards)
       IN  /\ evaluated.value =
                 Flush * 1000 + suitIndex[top.suit] * 13 + rankIndex[top.rank]
           /\ \A other \in Flushes :
                 LET otherTop == highestOf(other)
                     otherValue == PlayValue(PlayFromString(other, undefined))
                 IN  /\ kindOf(other) = Flush
                     /\ suitIndex[otherTop.suit] > suitIndex[top.suit]
                        => otherValue > evaluated.value
                     /\ suitIndex[otherTop.suit] < suitIndex[top.suit]
                        => otherValue < evaluated.value
                     /\ (/\ otherTop.suit = top.suit
                         /\ rankIndex[otherTop.rank] > rankIndex[top.rank])
                        => otherValue > evaluated.value
                     /\ (/\ otherTop.suit = top.suit
                         /\ rankIndex[otherTop.rank] < rankIndex[top.rank])
                        => otherValue < evaluated.value

\* C17 witness: a club Flush topped by the 2 has been valued, below every
\* Flush of another suit.
C17_Witness ==
    /\ valued
    /\ Len(evaluated.cards) = 5
    /\ kindOf(evaluated.cards) = Flush
    /\ highestOf(evaluated.cards) = Card("2", "C")
    /\ evaluated.value = 2012

\* ---- moves and turns (Spec)

\* C18: an accepted pass leaves the hands, remaining, discarded, winners,
\* firstTurn and hasStarted as they were; lastPlay is left as it was or cleared,
\* and it is cleared exactly when the next seat of the rotation that skips
\* winners is the owner of lastPlay.
C18_PassChangesTableAndTurnOnly ==
    [][(move'.name = "pass" /\ ret = "none" /\ ret' = "accepted")
       => /\ UNCHANGED <<players, remaining, discarded, winners, firstTurn, hasStarted>>
          /\ lastPlay # null
          /\ lastPlay' = IF nextInRotation(winners, playOrderPos) = lastPlay.player
                         THEN null
                         ELSE lastPlay]_vars

\* C18 witness: with one seat out, a pass was accepted that left lastPlay on
\* the table.
C18_Witness ==
    /\ passReturned("accepted")
    /\ lastPlay # null
    /\ Len(winners) = 1
    /\ playOrderPos # lastPlay.player

\* C19: whenever lastPlay is present its owner is not in winners, is not the
\* seat to act, and hasStarted is true.
C19_LastPlayOwner ==
    lastPlay # null
    => /\ ~includes(winners, lastPlay.player)
       /\ Len(players[lastPlay.player]) > 0
       /\ lastPlay.player # currentPlayer
       /\ hasStarted = TRUE

\* C19 witness: a seat is out and another seat's play is on the table, passed
\* on once.
C19_Witness ==
    /\ lastPlay # null
    /\ winners # <<>>
    /\ passReturned("accepted")
    /\ lastPlay.player # move.player
    /\ Len(lastPlay.cards) = 1

\* C20: in every reachable state with fewer than 3 winners the seat to act has
\* cards and at least one move that is accepted: the lead of 3C alone before
\* the round has started, any single card it holds on a cleared table, and a
\* pass when lastPlay is present.
C20_SeatToActCanMove ==
    Len(winners) < 3
    => /\ Len(players[currentPlayer]) > 0
       /\ ~gameover
       /\ IF lastPlay # null
          THEN ~passInvalid(lastPlay)
          ELSE IF ~hasStarted
          THEN /\ includes(players[currentPlayer], CardToString(lowest))
               /\ playAccepted(<<CardToString(lowest)>>)
          ELSE \A i \in DOMAIN players[currentPlayer] :
                  playAccepted(<<players[currentPlayer][i]>>)

\* C20 witness: two seats are out, the table is cleared and the seat to act
\* is about to lead.
C20_Witness ==
    /\ Len(winners) = 2
    /\ lastPlay = null
    /\ hasStarted
    /\ ret = "none"
    /\ Len(players[currentPlayer]) > 0

\* ---- the end of the round (LiveSpec)

\* The number of cards in the hands.
cardsInHands(hands) == Len(flatten([i \in 1..NUM_PLAYERS |-> hands[i - 1]]))

\* The seats that can still pass on lastPlay: the seats not in winners from
\* the seat to act round to the owner of lastPlay, the owner left out.
passesLeft(lp, w, pos) ==
    IF lp = null
    THEN 0
    ELSE LET d == IF lp.player = pos
                  THEN NUM_PLAYERS
                  ELSE (lp.player - pos + NUM_PLAYERS) % NUM_PLAYERS
         IN  Cardinality({e \in 0..(d - 1) : ~includes(w, (pos + e) % NUM_PLAYERS)})

\* C21: the round terminates. Every accepted play takes cards out of the
\* hands; after a play at most 3 seats can pass and every accepted pass uses
\* one of them up, so at most 3 passes are accepted between two accepted plays
\* (and of the ctx.turn - 1 accepted moves at most three in four are passes);
\* the seat to act always has a move that is accepted while the round is on;
\* and when it always eventually submits an accepted move, the round reaches
\* completion with 3 winners.
C21_RoundTerminates ==
    /\ [][/\ (move'.name = "play" /\ ret = "none" /\ ret' = "accepted")
              => /\ cardsInHands(players') < cardsInHands(players)
                 /\ passesLeft(lastPlay', winners', playOrderPos') <= 3
          /\ (move'.name = "pass" /\ ret = "none" /\ ret' = "accepted")
              => /\ passesLeft(lastPlay, winners, playOrderPos) >= 1
                 /\ passesLeft(lastPlay', winners', playOrderPos')
                       = passesLeft(lastPlay, winners, playOrderPos) - 1
                 /\ cardsInHands(players') = cardsInHands(players)
          /\ (turn' - 1) - Len(discarded') <= 3 * Len(discarded')]_vars
    /\ [](canSubmit => (~passInvalid(lastPlay) \/ acceptedLengths # {}))
    /\ <>(gameover /\ Len(winners) = 3)

\* C21 witness: the round is complete after more turns than the seats chose
\* their moves freely, the last of three seats having gone out on a play that
\* followed a pass.
C21_Witness ==
    /\ gameover
    /\ Len(winners) = 3
    /\ turn > MaxFreeTurn + 1
    /\ playReturned("accepted")
    /\ (turn - 1) - Len(discarded) > 0

====
